---- MODULE Spec2Model ----
(***************************************************************************)
(* Model of the RSA accelerator driver, esp-hal-common/src/rsa/mod.rs.     *)
(*                                                                         *)
(* The driver is single threaded; the accelerator runs beside it.  Every   *)
(* public method is modelled statement by statement (pc is the position    *)
(* inside the method that is executing), so that the accelerator's one     *)
(* step, HwComplete, can fall between any two register accesses of a       *)
(* method, as it can on the chip.  A method that has been entered runs to  *)
(* its return before the caller can enter another one.                     *)
(*                                                                         *)
(* mod.rs holds the handle, the staging primitives, the operand size       *)
(* macro and the three sessions' start_exponentiation / read_results.      *)
(* The per-chip backend (rsa_spec_impl: the sessions' constructors,        *)
(* set_start, is_idle, clear_interrupt, the other two start methods and    *)
(* the list of operand sizes) lives in other files; those definitions follow *)
(* the driver's written specification.                                     *)
(***************************************************************************)
EXTENDS Integers, Sequences, FiniteSets, TLC

\* ------------------------------------------------------------------ bounds

\* Pending polls counted in a row (the counter saturates, it blocks nothing).
MaxPolls == 2
\* Capacity in bytes of each accelerator memory region of the model.
MemLen == 2
\* Widths 8, 16, ..., 8 * MaxWidthUnits are the inputs of the size functions.
MaxWidthUnits == 512

\* ------------------------------------------------------- operand sizes

\* implement_op!: type InputType = [u8; $x / 8]
InputType(x) == x \div 8

OutputTypeNotDoubled(x) == x \div 8
\* implement_op!, multi arm: type OutputType = [u8; $x*2 / 8]
OutputType(x) == (x * 2) \div 8

\* The widths the sessions of the model are instantiated with (Op8, Op16),
\* and those among them that implement Multi.
operand_sizes == [all |-> {8, 16}, multi |-> {8}]

\* Every supported width is a whole number of bytes.
SupportedWidths == {8 * k : k \in 1..MaxWidthUnits}

Kinds == {"exp", "modmul", "mul"}

\* The N of read_out::<N> for a session: the length of the buffer type that
\* the session's read_results takes (T::InputType, or T::OutputType for
\* RsaMultiplication).
OutLen(s) == IF s.kind = "mul" THEN OutputType(s.n) ELSE InputType(s.n)

\* ------------------------------------------------------------ arithmetic

RECURSIVE LeValue(_)
\* An operand is a little endian byte array.
LeValue(bytes) ==
    IF Len(bytes) = 0 THEN 0 ELSE Head(bytes) + 256 * LeValue(Tail(bytes))

RECURSIVE LeBytes(_, _)
LeBytes(v, len) ==
    IF len = 0 THEN <<>> ELSE <<v % 256>> \o LeBytes(v \div 256, len - 1)

Min(a, b) == IF a < b THEN a ELSE b

Zeros(len) == [i \in 1..len |-> 0]

RECURSIVE PowMod(_, _, _)
\* (b ^ e) mod m by square and multiply, reduced at every step.
PowMod(b, e, m) ==
    IF e = 0 THEN 1 % m
    ELSE LET h == PowMod(b, e \div 2, m)
             sq == (h * h) % m
         IN  IF e % 2 = 1 THEN (sq * (b % m)) % m ELSE sq

\* start_exponentiation's doc: r is 2 ^ (bitlength * 2) mod modulus.
RFor(n, m) == PowMod(2, 2 * n, m)

\* -m^(-1) mod 2^32 of the moduli the model uses.
MPrimeFor(m) == CASE m = 11 -> 1171354717 [] m = 257 -> 16711935 [] OTHER -> 0

\* ------------------------------------------------------ the caller's inputs

Moduli(n) == IF n = 8 THEN {11} ELSE {257}
ExpVals(n) == IF n = 8 THEN {0, 1, 5} ELSE {9}
BaseVals(n) == IF n = 8 THEN {3} ELSE {256}
MulVals == {3, 200}

VARIABLES
    handle,     \* an Rsa exists
    clock,      \* the accelerator's clock gate is enabled
    sessions,   \* the live sessions, each holding `rsa: &'a mut Rsa`
    x_mem, y_mem, m_mem, z_mem,   \* the accelerator's memory regions
    m_prime,    \* the M_PRIME register
    latch,      \* the completion latch is_idle reads and clear_interrupt clears
    hw,         \* the operation in flight, if any
    raced,      \* software has touched the accelerator during the operation in flight
    acks,       \* completions and their acknowledgements since the last start
    pc,         \* position inside the method being executed
    args,       \* the arguments of the method being executed
    outbuf,     \* the caller's output buffer
    ret,        \* what the last read_results returned
    trace,      \* the register and memory accesses of the current (or last) method
    polls,      \* read_results calls that returned WouldBlock since the last start
    staged,     \* the operands the caller has passed to the live session, and
                \* how many operations it has started with it (0, 1, many)
    sz          \* input and result of the operand size functions (SizeSpec)

vars == <<handle, clock, sessions, x_mem, y_mem, m_mem, z_mem, m_prime, latch,
          hw, raced, acks, pc, args, outbuf, ret, trace, polls, staged, sz>>

mems == <<x_mem, y_mem, m_mem, z_mem, m_prime>>

NoArgs == [base |-> <<>>, r |-> <<>>]
NoOp == [busy |-> FALSE, kind |-> "none", n |-> 0]
NoStaged == [operand_b |-> <<>>, modulus |-> <<>>, operand_a |-> <<>>, starts |-> 0]
NoSize == [n |-> 0, input |-> 0, output |-> 0, done |-> FALSE]

InitDriver ==
    /\ handle = FALSE
    /\ clock = FALSE
    /\ sessions = <<>>
    /\ x_mem = Zeros(MemLen)
    /\ y_mem = Zeros(MemLen)
    /\ m_mem = Zeros(MemLen)
    /\ z_mem = Zeros(MemLen)
    /\ m_prime = 0
    /\ latch = FALSE
    /\ hw = NoOp
    /\ raced = FALSE
    /\ acks = [done |-> FALSE, clears |-> 0]
    /\ pc = "idle"
    /\ args = NoArgs
    /\ outbuf = <<>>
    /\ ret = "none"
    /\ trace = <<>>
    /\ polls = 0
    /\ staged = NoStaged

Init == InitDriver /\ sz = NoSize

\* ------------------------------------------------- the staging primitives

\* core::ptr::copy_nonoverlapping(src, dst, count): the first count bytes of
\* dst become src's, the rest of dst stays.
copy_nonoverlapping(src, dst, count) ==
    [i \in 1..Len(dst) |-> IF i <= count THEN src[i] ELSE dst[i]]

write_operand_b(operand_b) == copy_nonoverlapping(operand_b, y_mem, Len(operand_b))

write_modulus(modulus) == copy_nonoverlapping(modulus, m_mem, Len(modulus))

write_mprime(word) == word

write_operand_a_to_y(operand_a) ==
    [x |-> x_mem, y |-> copy_nonoverlapping(operand_a, y_mem, Len(operand_a))]

\* The regions x_mem and y_mem after write_operand_a.
write_operand_a(operand_a) ==
    [x |-> copy_nonoverlapping(operand_a, x_mem, Len(operand_a)), y |-> y_mem]

write_r_skipped(r) == z_mem
write_r(r) == copy_nonoverlapping(r, z_mem, Len(r))

\* read_out::<N>(outbuf): the caller's buffer after the copy.
read_out(count) == [i \in 1..count |-> z_mem[i]]

\* ------------------------------------------------------------ the backend

\* is_idle(): a read of the completion latch, changing nothing.
is_idle == latch

\* clear_interrupt(): acknowledges the completion.
clear_interrupt == FALSE

\* set_start(): the operation of session s is in flight.
set_start(s) == [busy |-> TRUE, kind |-> s.kind, n |-> s.n]

\* Software writes to the accelerator while an operation is in flight.
Touch == raced \/ hw.busy

\* ----------------------------------------------------------- the accelerator

Prefix(mem, len) == SubSeq(mem, 1, len)

\* The operands are staged as the accelerator needs them for a modular
\* operation of width n: an odd modulus, operand A below it, r and m_prime
\* the Montgomery constants of the modulus.
ValidModular(n) ==
    LET len == InputType(n)
        M == LeValue(Prefix(m_mem, len))
    IN  /\ M > 1
        /\ M % 2 = 1
        /\ LeValue(Prefix(x_mem, len)) < M
        /\ LeValue(Prefix(z_mem, len)) = RFor(n, M)
        /\ m_prime = MPrimeFor(M)

\* What the operation in flight leaves in the result region when nothing
\* disturbs it: (base ^ exponent) mod modulus, (operand a * operand b) mod
\* modulus, or operand a * operand b.
HwResult ==
    LET len == InputType(hw.n)
        X == LeValue(Prefix(x_mem, len))
        Y == LeValue(Prefix(y_mem, len))
        M == LeValue(Prefix(m_mem, len))
    IN  CASE hw.kind = "exp" ->
                IF ValidModular(hw.n) THEN LeBytes(PowMod(X, Y, M), len) ELSE Zeros(len)
          [] hw.kind = "modmul" ->
                IF ValidModular(hw.n) THEN LeBytes((X * Y) % M, len) ELSE Zeros(len)
          [] OTHER -> LeBytes(X * Y, OutputType(hw.n))

\* The operation in flight completes: the result is in the result region and
\* the completion latch is set.  An operation that software disturbed may
\* leave anything.
HwComplete ==
    /\ hw.busy
    /\ \E res \in {HwResult} \cup (IF raced THEN {Zeros(Len(HwResult))} ELSE {}) :
          z_mem' = copy_nonoverlapping(res, z_mem, Len(res))
    /\ latch' = TRUE
    /\ hw' = NoOp
    /\ raced' = FALSE
    /\ acks' = [done |-> TRUE, clears |-> 0]
    /\ UNCHANGED <<handle, clock, sessions, x_mem, y_mem, m_mem, m_prime, pc, args,
                   outbuf, ret, trace, polls, staged, sz>>

\* ------------------------------------------------------------------ Rsa

RsaNewNoInit ==
    /\ ~handle
    /\ handle' = TRUE
    /\ UNCHANGED <<clock, sessions, x_mem, y_mem, m_mem, z_mem, m_prime, latch, hw, raced,
                   acks, pc, args, outbuf, ret, trace, polls, staged, sz>>

\* Rsa::new: into_ref!, then init enables the peripheral's clock.
RsaNew ==
    /\ ~handle
    /\ handle' = TRUE
    /\ clock' = TRUE
    /\ UNCHANGED <<sessions, x_mem, y_mem, m_mem, z_mem, m_prime, latch, hw, raced,
                   acks, pc, args, outbuf, ret, trace, polls, staged, sz>>

\* The handle goes out of scope (no session borrows it any more).  Rsa has no
\* Drop implementation: nothing is written, and the clock stays as it is.
RsaDrop ==
    /\ handle
    /\ pc = "idle"
    /\ Len(sessions) = 0
    /\ handle' = FALSE
    /\ UNCHANGED <<clock, sessions, x_mem, y_mem, m_mem, z_mem, m_prime, latch, hw,
                   raced, acks, pc, args, outbuf, ret, trace, polls, staged, sz>>

\* ------------------------------------------------------------- sessions

BorrowShared == TRUE
\* `rsa: &'a mut Rsa<'d>`: a session can take the exclusive borrow of the
\* handle only while no other session holds it.
BorrowMut == Len(sessions) = 0

\* A session of the given kind and width is constructed: operand B, the
\* modulus and m_prime are staged through the handle's primitives (the large
\* multiplication has no modulus), and the caller has a zeroed output buffer
\* of the session's output type.
NewSession(kind, n, operand_b, modulus, mp) ==
    /\ handle
    /\ pc = "idle"
    /\ BorrowMut
    /\ sessions' = Append(sessions, [kind |-> kind, n |-> n])
    /\ y_mem' = write_operand_b(operand_b)
    /\ IF kind = "mul"
         THEN UNCHANGED <<m_mem, m_prime>>
         ELSE /\ m_mem' = write_modulus(modulus)
              /\ m_prime' = write_mprime(mp)
    /\ raced' = Touch
    /\ outbuf' = Zeros(OutLen([kind |-> kind, n |-> n]))
    /\ ret' = "none"
    /\ trace' = <<"new">>
    /\ polls' = 0
    /\ staged' = [operand_b |-> operand_b,
                   modulus |-> IF kind = "mul" THEN <<>> ELSE modulus,
                   operand_a |-> <<>>,
                   starts |-> 0]
    /\ UNCHANGED <<handle, clock, x_mem, z_mem, latch, hw, acks, pc, args, sz>>

NewOf(kind) ==
    \E n \in (IF kind = "mul" THEN operand_sizes.multi ELSE operand_sizes.all) :
      \E e \in (IF kind = "mul" THEN MulVals ELSE ExpVals(n)), m \in Moduli(n) :
        NewSession(kind, n, LeBytes(e, InputType(n)), LeBytes(m, InputType(n)),
                   MPrimeFor(m))

\* RsaModularExponentiation::new(rsa, exponent, modulus, m_prime)
NewExp == NewOf("exp")

New == NewExp \/ NewOf("modmul") \/ NewOf("mul")

Remove(seq, i) == SubSeq(seq, 1, i - 1) \o SubSeq(seq, i + 1, Len(seq))

\* A session goes out of scope between two calls: the borrow ends.  Nothing
\* is written to the accelerator (no session implements Drop).
DropSession(i) ==
    /\ pc = "idle"
    /\ i \in 1..Len(sessions)
    /\ sessions' = Remove(sessions, i)
    /\ ret' = "none"
    /\ trace' = <<"drop">>
    /\ polls' = 0
    /\ UNCHANGED <<handle, clock, x_mem, y_mem, m_mem, z_mem, m_prime, latch, hw,
                   raced, acks, pc, args, outbuf, staged, sz>>

Drop == \E i \in 1..Len(sessions) : DropSession(i)

\* ----------------------------------------------- RsaModularExponentiation

\* start_exponentiation, first statement: self.rsa.write_operand_a(base).
StartExpWriteA(i, base, r) ==
    /\ pc = "idle"
    /\ i \in 1..Len(sessions)
    /\ sessions[i].kind = "exp"
    /\ x_mem' = write_operand_a(base).x
    /\ y_mem' = write_operand_a(base).y
    /\ raced' = Touch
    /\ args' = [i |-> i, base |-> base, r |-> r]
    /\ trace' = <<"write_operand_a">>
    /\ pc' = "se_write_r"
    /\ ret' = "none"
    /\ polls' = 0
    /\ staged' = [staged EXCEPT !.operand_a = base, !.starts = Min(@ + 1, 2)]
    /\ UNCHANGED <<handle, clock, sessions, m_mem, z_mem, m_prime, latch, hw, acks,
                   outbuf, sz>>

\* start_exponentiation, second statement: self.rsa.write_r(r).
StartExpWriteR ==
    /\ pc = "se_write_r"
    /\ z_mem' = write_r(args.r)
    /\ raced' = Touch
    /\ trace' = Append(trace, "write_r")
    /\ pc' = "se_set_start"
    /\ UNCHANGED <<handle, clock, sessions, x_mem, y_mem, m_mem, m_prime, latch, hw,
                   acks, args, outbuf, ret, polls, staged, sz>>

\* start_exponentiation, last statement: self.set_start(); the method returns.
StartExpSetStart ==
    /\ pc = "se_set_start"
    /\ hw' = set_start(sessions[args.i])
    /\ raced' = hw.busy
    /\ acks' = [done |-> FALSE, clears |-> 0]
    /\ trace' = Append(trace, "set_start")
    /\ pc' = "idle"
    /\ args' = NoArgs
    /\ UNCHANGED <<handle, clock, sessions, x_mem, y_mem, m_mem, z_mem, m_prime, latch,
                   outbuf, ret, polls, staged, sz>>

StartExpTriggerFirst(i, base, r) ==
    \/ /\ pc = "idle"
       /\ i \in 1..Len(sessions)
       /\ sessions[i].kind = "exp"
       /\ hw' = set_start(sessions[i])
       /\ raced' = hw.busy
       /\ acks' = [done |-> FALSE, clears |-> 0]
       /\ args' = [i |-> i, base |-> base, r |-> r]
       /\ trace' = <<"set_start">>
       /\ pc' = "se_write_a"
       /\ ret' = "none"
       /\ polls' = 0
       /\ staged' = [staged EXCEPT !.operand_a = base, !.starts = Min(@ + 1, 2)]
       /\ UNCHANGED <<handle, clock, sessions, x_mem, y_mem, m_mem, z_mem, m_prime,
                      latch, outbuf, sz>>
    \/ /\ pc = "se_write_a"
       /\ x_mem' = write_operand_a(args.base).x
       /\ y_mem' = write_operand_a(args.base).y
       /\ raced' = Touch
       /\ trace' = Append(trace, "write_operand_a")
       /\ pc' = "se_write_r"
       /\ UNCHANGED <<handle, clock, sessions, m_mem, z_mem, m_prime, latch, hw, acks,
                      args, outbuf, ret, polls, staged, sz>>
    \/ /\ pc = "se_write_r"
       /\ z_mem' = write_r(args.r)
       /\ raced' = Touch
       /\ trace' = Append(trace, "write_r")
       /\ pc' = "idle"
       /\ args' = NoArgs
       /\ UNCHANGED <<handle, clock, sessions, x_mem, y_mem, m_mem, m_prime, latch, hw,
                      acks, outbuf, ret, polls, staged, sz>>
\* RsaModularExponentiation::start_exponentiation(base, r) of session i.
start_exponentiation(i, base, r) ==
    \/ StartExpWriteA(i, base, r)
    \/ StartExpWriteR
    \/ StartExpSetStart

StartExp ==
    \E i \in 1..Len(sessions) :
      \E b \in BaseVals(sessions[i].n), m \in Moduli(sessions[i].n) :
        start_exponentiation(i, LeBytes(b, InputType(sessions[i].n)),
                             LeBytes(RFor(sessions[i].n, m), InputType(sessions[i].n)))

\* ---------------------------------------------------------- read_results

\* read_results, `if !self.rsa.is_idle() { return Err(nb::Error::WouldBlock) }`:
\* the method returns here when the accelerator is not idle.
ReadPending(i, kind) ==
    /\ pc = "idle"
    /\ i \in 1..Len(sessions)
    /\ sessions[i].kind = kind
    /\ ~is_idle
    /\ ret' = "WouldBlock"
    /\ trace' = <<"is_idle">>
    /\ polls' = Min(polls + 1, MaxPolls)
    /\ UNCHANGED <<handle, clock, sessions, x_mem, y_mem, m_mem, z_mem, m_prime, latch,
                   hw, raced, acks, pc, args, outbuf, staged, sz>>

\* read_results, the same test when the accelerator is idle: the method goes on.
ReadIdle(i, kind) ==
    /\ pc = "idle"
    /\ i \in 1..Len(sessions)
    /\ sessions[i].kind = kind
    /\ is_idle
    /\ args' = [i |-> i, base |-> <<>>, r |-> <<>>]
    /\ ret' = "none"
    /\ trace' = <<"is_idle">>
    /\ polls' = polls
    /\ pc' = "rr_read_out"
    /\ UNCHANGED <<handle, clock, sessions, x_mem, y_mem, m_mem, z_mem, m_prime, latch,
                   hw, raced, acks, outbuf, staged, sz>>

ReadOutDestructive(kind) ==
    /\ pc = "rr_read_out"
    /\ sessions[args.i].kind = kind
    /\ outbuf' = read_out(OutLen(sessions[args.i]))
    /\ z_mem' = Zeros(Len(z_mem))
    /\ trace' = Append(trace, "read_out")
    /\ pc' = "rr_clear"
    /\ UNCHANGED <<handle, clock, sessions, x_mem, y_mem, m_mem, m_prime, latch,
                   hw, raced, acks, args, ret, polls, staged, sz>>

\* read_results: self.rsa.read_out(outbuf).
ReadOut(kind) ==
    /\ pc = "rr_read_out"
    /\ sessions[args.i].kind = kind
    /\ outbuf' = read_out(OutLen(sessions[args.i]))
    /\ trace' = Append(trace, "read_out")
    /\ pc' = "rr_clear"
    /\ UNCHANGED <<handle, clock, sessions, x_mem, y_mem, m_mem, z_mem, m_prime, latch,
                   hw, raced, acks, args, ret, polls, staged, sz>>

\* read_results: self.rsa.clear_interrupt(); Ok(()).
ReadClear(kind) ==
    /\ pc = "rr_clear"
    /\ sessions[args.i].kind = kind
    /\ latch' = clear_interrupt
    /\ acks' = [acks EXCEPT !.clears = IF acks.done THEN Min(@ + 1, 2) ELSE @]
    /\ trace' = Append(trace, "clear_interrupt")
    /\ ret' = "Ok"
    /\ pc' = "idle"
    /\ args' = NoArgs
    /\ UNCHANGED <<handle, clock, sessions, x_mem, y_mem, m_mem, z_mem, m_prime, hw,
                   raced, outbuf, polls, staged, sz>>

\* The three read_results are the same text; only the buffer type differs.
read_results_of(i, kind) ==
    \/ ReadPending(i, kind)
    \/ ReadIdle(i, kind)
    \/ ReadOut(kind)
    \/ ReadClear(kind)

ReadPendingCopyFirst(i, kind) ==
    /\ pc = "idle"
    /\ i \in 1..Len(sessions)
    /\ sessions[i].kind = kind
    /\ ~is_idle
    /\ outbuf' = read_out(OutLen(sessions[i]))
    /\ ret' = "WouldBlock"
    /\ trace' = <<"is_idle">>
    /\ polls' = Min(polls + 1, MaxPolls)
    /\ UNCHANGED <<handle, clock, sessions, x_mem, y_mem, m_mem, z_mem, m_prime, latch,
                   hw, raced, acks, pc, args, staged, sz>>

read_results_copy_first(i) ==
    \/ ReadPendingCopyFirst(i, "exp")
    \/ ReadIdle(i, "exp")
    \/ ReadOut("exp")
    \/ ReadClear("exp")

read_results_clear_first(i) ==
    \/ ReadPending(i, "exp")
    \/ /\ ReadIdle(i, "exp")
    \/ /\ pc = "rr_read_out"
       /\ sessions[args.i].kind = "exp"
       /\ latch' = clear_interrupt
       /\ acks' = [acks EXCEPT !.clears = IF acks.done THEN Min(@ + 1, 2) ELSE @]
       /\ trace' = Append(trace, "clear_interrupt")
       /\ pc' = "rr_clear"
       /\ UNCHANGED <<handle, clock, sessions, x_mem, y_mem, m_mem, z_mem, m_prime, hw,
                      raced, args, outbuf, ret, polls, staged, sz>>
    \/ /\ pc = "rr_clear"
       /\ sessions[args.i].kind = "exp"
       /\ outbuf' = read_out(OutLen(sessions[args.i]))
       /\ trace' = Append(trace, "read_out")
       /\ ret' = "Ok"
       /\ pc' = "idle"
       /\ args' = NoArgs
       /\ UNCHANGED <<handle, clock, sessions, x_mem, y_mem, m_mem, z_mem, m_prime, latch,
                      hw, raced, acks, polls, staged, sz>>

read_results_inverted(i) ==
    \/ /\ is_idle
       /\ pc = "idle"
       /\ i \in 1..Len(sessions)
       /\ sessions[i].kind = "exp"
       /\ ret' = "WouldBlock"
       /\ trace' = <<"is_idle">>
       /\ polls' = Min(polls + 1, MaxPolls)
       /\ UNCHANGED <<handle, clock, sessions, x_mem, y_mem, m_mem, z_mem, m_prime, latch,
                      hw, raced, acks, pc, args, outbuf, staged, sz>>
    \/ /\ ~is_idle
       /\ pc = "idle"
       /\ i \in 1..Len(sessions)
       /\ sessions[i].kind = "exp"
       /\ args' = [i |-> i, base |-> <<>>, r |-> <<>>]
       /\ ret' = "none"
       /\ trace' = <<"is_idle">>
       /\ polls' = polls
       /\ pc' = "rr_read_out"
       /\ UNCHANGED <<handle, clock, sessions, x_mem, y_mem, m_mem, z_mem, m_prime, latch,
                      hw, raced, acks, outbuf, staged, sz>>
    \/ ReadOut("exp")
    \/ ReadClear("exp")

read_results_never_ready(i) ==
    /\ pc = "idle"
    /\ i \in 1..Len(sessions)
    /\ sessions[i].kind = "exp"
    /\ ret' = "WouldBlock"
    /\ trace' = <<"is_idle">>
    /\ polls' = Min(polls + 1, MaxPolls)
    /\ UNCHANGED <<handle, clock, sessions, x_mem, y_mem, m_mem, z_mem, m_prime, latch,
                   hw, raced, acks, pc, args, outbuf, staged, sz>>

\* RsaModularExponentiation::read_results(outbuf) of session i.
RsaModularExponentiation_read_results(i) == read_results_of(i, "exp")

\* RsaModularMultiplication::read_results(outbuf) of session i.
RsaModularMultiplication_read_results(i) == read_results_of(i, "modmul")

\* RsaMultiplication::read_results(outbuf) of session i.
RsaMultiplication_read_results(i) == read_results_of(i, "mul")

ReadResultsExp == \E i \in 1..Len(sessions) : RsaModularExponentiation_read_results(i)

ReadResults ==
    \/ ReadResultsExp
    \/ \E i \in 1..Len(sessions) : RsaModularMultiplication_read_results(i)
    \/ \E i \in 1..Len(sessions) : RsaMultiplication_read_results(i)

\* ------------------------------- the other two sessions' start methods

\* RsaModularMultiplication: operand A and r are staged and the operation is
\* triggered, in the pattern of start_exponentiation.
start_modular_multiplication(i, operand_a, r) ==
    /\ pc = "idle"
    /\ i \in 1..Len(sessions)
    /\ sessions[i].kind = "modmul"
    /\ x_mem' = write_operand_a(operand_a).x
    /\ y_mem' = write_operand_a(operand_a).y
    /\ z_mem' = write_r(r)
    /\ hw' = set_start(sessions[i])
    /\ raced' = hw.busy
    /\ acks' = [done |-> FALSE, clears |-> 0]
    /\ trace' = <<"write_operand_a", "write_r", "set_start">>
    /\ ret' = "none"
    /\ polls' = 0
    /\ staged' = [staged EXCEPT !.operand_a = operand_a, !.starts = Min(@ + 1, 2)]
    /\ UNCHANGED <<handle, clock, sessions, m_mem, m_prime, latch, pc, args, outbuf, sz>>

\* RsaMultiplication: operand A is staged and the operation is triggered.
start_multiplication(i, operand_a) ==
    /\ pc = "idle"
    /\ i \in 1..Len(sessions)
    /\ sessions[i].kind = "mul"
    /\ x_mem' = write_operand_a(operand_a).x
    /\ y_mem' = write_operand_a(operand_a).y
    /\ hw' = set_start(sessions[i])
    /\ raced' = hw.busy
    /\ acks' = [done |-> FALSE, clears |-> 0]
    /\ trace' = <<"write_operand_a", "set_start">>
    /\ ret' = "none"
    /\ polls' = 0
    /\ staged' = [staged EXCEPT !.operand_a = operand_a, !.starts = Min(@ + 1, 2)]
    /\ UNCHANGED <<handle, clock, sessions, m_mem, z_mem, m_prime, latch, pc, args,
                   outbuf, sz>>

StartModMul ==
    \E i \in 1..Len(sessions) :
      \E a \in BaseVals(sessions[i].n), m \in Moduli(sessions[i].n) :
        start_modular_multiplication(i, LeBytes(a, InputType(sessions[i].n)),
                             LeBytes(RFor(sessions[i].n, m), InputType(sessions[i].n)))

StartMul ==
    \E i \in 1..Len(sessions) :
      \E a \in MulVals :
        start_multiplication(i, LeBytes(a, InputType(sessions[i].n)))

\* --------------------------------------------------------- specification

Next ==
    \/ RsaNew
    \/ RsaDrop
    \/ New
    \/ Drop
    \/ StartExp
    \/ StartModMul
    \/ StartMul
    \/ ReadResults
    \/ HwComplete

Spec == Init /\ [][Next]_vars

\* The driver used for modular exponentiation alone.
ExpNext ==
    \/ RsaNew
    \/ RsaDrop
    \/ NewExp
    \/ Drop
    \/ StartExp
    \/ ReadResultsExp
    \/ HwComplete

ExpSpec == Init /\ [][ExpNext]_vars

\* The caller of the poll loop: once start_exponentiation has returned it
\* calls read_results, and nothing else, until read_results returns Ok.
Polling ==
    /\ pc = "idle"
    /\ Len(sessions) = 1
    /\ staged.starts > 0
    /\ ret # "Ok"

PollNext ==
    \/ RsaNew
    \/ RsaDrop
    \/ ~Polling /\ NewExp
    \/ ~Polling /\ Drop
    \/ ~Polling /\ StartExp
    \/ ReadResultsExp
    \/ HwComplete

\* The accelerator finishes what it has started, a method that has been
\* entered runs on, and the poll loop keeps calling read_results.
LiveSpec ==
    /\ Init
    /\ [][PollNext]_vars
    /\ WF_vars(HwComplete)
    /\ WF_vars(StartExpWriteR \/ StartExpSetStart)
    /\ WF_vars(ReadResultsExp)

\* ------------------------------------------------- the operand size types

SizeInit ==
    /\ InitDriver
    /\ \E n \in SupportedWidths : sz = [n |-> n, input |-> 0, output |-> 0, done |-> FALSE]

\* RsaMode::InputType of Op<n>.
SizeOfInput ==
    /\ sz.input = 0
    /\ sz' = [sz EXCEPT !.input = InputType(sz.n)]
    /\ UNCHANGED <<handle, clock, sessions, x_mem, y_mem, m_mem, z_mem, m_prime, latch,
                   hw, raced, acks, pc, args, outbuf, ret, trace, polls, staged>>

\* Multi::OutputType of Op<n>.
SizeOfOutput ==
    /\ sz.input # 0
    /\ ~sz.done
    /\ sz' = [sz EXCEPT !.output = OutputType(sz.n), !.done = TRUE]
    /\ UNCHANGED <<handle, clock, sessions, x_mem, y_mem, m_mem, z_mem, m_prime, latch,
                   hw, raced, acks, pc, args, outbuf, ret, trace, polls, staged>>

SizeNext == SizeOfInput \/ SizeOfOutput

SizeSpec == SizeInit /\ [][SizeNext]_vars

\* ------------------------------------------------------- what a step was

\* The step made the access `name` to the accelerator.
Did(name) == trace' # trace /\ Len(trace') > 0 /\ trace'[Len(trace')] = name

\* The step entered read_results (and evaluated its test).
ReadEntered ==
    /\ pc = "idle"
    /\ trace' = <<"is_idle">>
    /\ <<ret, trace, polls, pc>>' # <<ret, trace, polls, pc>>

\* ---------------------------------------------------------------- claims

\* C1: a read_results call made while the accelerator is not idle returns
\* WouldBlock and leaves the caller's buffer, the completion latch and all of
\* the accelerator's state as they were, for every session kind and for
\* every poll of a run of polls.
C1_PendingReadChangesNothing ==
    [][(ReadEntered /\ ~latch) =>
          /\ ret' = "WouldBlock"
          /\ pc' = "idle"
          /\ outbuf' = outbuf
          /\ latch' = latch
          /\ hw' = hw
          /\ raced' = raced
          /\ mems' = mems]_vars

\* MaxPolls polls in a row have returned WouldBlock while an exponentiation is
\* in flight, and the buffer differs from the result region.
C1_Witness ==
    /\ Len(sessions) = 1
    /\ sessions[1].kind = "exp"
    /\ polls = MaxPolls
    /\ ret = "WouldBlock"
    /\ hw.busy
    /\ ~latch
    /\ outbuf # Prefix(z_mem, Len(outbuf))

\* C2: a read_results call made while the accelerator is idle copies the
\* result region into the caller's buffer while the completion signal is
\* still set, then clears the signal, then returns Ok; the clear is never
\* made before the copy.
C2_CopyThenClearThenOk ==
    [][/\ (ReadEntered /\ latch) =>
             (pc' = "rr_read_out" /\ ret' # "WouldBlock" /\ outbuf' = outbuf /\ latch')
       /\ Did("read_out") =>
             /\ trace = <<"is_idle">>
             /\ latch /\ latch'
             /\ outbuf' = Prefix(z_mem, OutLen(sessions[args.i]))
             /\ ret' # "Ok"
       /\ Did("clear_interrupt") =>
             /\ trace = <<"is_idle", "read_out">>
             /\ ~latch'
             /\ outbuf' = outbuf
             /\ ret' = "Ok"
             /\ pc' = "idle"
       /\ (ret' = "Ok" /\ ret # "Ok") => Did("clear_interrupt")]_vars

\* A large multiplication 200 * 200 = 40000 has been read: the buffer holds
\* its four hex digits 9C40, low byte first, and the latch is clear.
C2_Witness ==
    /\ Len(sessions) = 1
    /\ sessions[1].kind = "mul"
    /\ pc = "idle"
    /\ ret = "Ok"
    /\ trace = <<"is_idle", "read_out", "clear_interrupt">>
    /\ outbuf = <<64, 156>>
    /\ ~latch

\* C3: start_exponentiation asserts the start bit only after it has written
\* base to the operand-A region and r to the R region, in that order, and
\* returns with the operation still in flight.
C3_WritesBeforeStart ==
    [][/\ (Did("write_r") /\ pc = "se_write_r") =>
             Prefix(z_mem', Len(args.r)) = args.r
       /\ (Did("set_start") /\ hw'.kind = "exp") =>
             /\ pc = "se_set_start"
             /\ trace = <<"write_operand_a", "write_r">>
             /\ Prefix(x_mem, Len(args.base)) = args.base
             /\ Len(args.base) = InputType(hw'.n)
             /\ hw'.busy
             /\ pc' = "idle"]_vars

\* start_exponentiation(3, r) has returned on an 8 bit session with modulus
\* 11: 3 is in the operand-A region, r = 2^16 mod 11 = 9 in the R region and
\* the operation is in flight.
C3_Witness ==
    /\ Len(sessions) = 1
    /\ sessions[1] = [kind |-> "exp", n |-> 8]
    /\ pc = "idle"
    /\ trace = <<"write_operand_a", "write_r", "set_start">>
    /\ hw = [busy |-> TRUE, kind |-> "exp", n |-> 8]
    /\ x_mem[1] = 3
    /\ z_mem[1] = 9
    /\ ~raced

\* C4: software never writes a region of the accelerator and never triggers
\* a start while an operation that was started has not completed.
C4_NoWriteOrStartInFlight ==
    [][(Did("write_operand_a") \/ Did("write_r") \/ Did("set_start") \/ Did("new"))
          => ~hw.busy]_vars

\* C5: at most one session holds the handle.
C5_OneSession == Len(sessions) <= 1

\* A large multiplication session is alive while the exponentiation that an
\* earlier, dropped session started is still in flight.
C5_Witness ==
    /\ Len(sessions) = 1
    /\ sessions[1].kind = "mul"
    /\ hw.busy
    /\ hw.kind = "exp"

\* C6: read_results returns WouldBlock exactly when the accelerator is not
\* idle at the call, returns Ok otherwise, and has no other outcome.
C6_PendingIffNotIdle ==
    [][/\ ReadEntered =>
             /\ (ret' = "WouldBlock") <=> ~latch
             /\ latch => (pc' = "rr_read_out" /\ ret' = "none")
       /\ (pc \in {"rr_read_out", "rr_clear"} /\ pc' = "idle") => ret' = "Ok"
       /\ ret' \in {"none", "WouldBlock", "Ok"}]_vars

\* A run of MaxPolls pending polls was followed by a successful read.
C6_Witness ==
    /\ ret = "Ok"
    /\ polls = MaxPolls
    /\ pc = "idle"

\* C7: between a completion and the next start trigger the completion signal
\* is cleared exactly once, and no start is triggered while a completion is
\* unacknowledged.
C7_ClearedOncePerCompletion ==
    [][/\ Did("set_start") => (~latch /\ (acks.done => acks.clears = 1))
       /\ acks'.clears <= 1]_vars

\* C8: once start_exponentiation has returned, a caller that keeps polling
\* gets Ok from some read_results call if the accelerator completes; and a
\* read_results call that has been entered never has to wait: its next
\* statement can always be executed.
C8_PollingEndsInOk ==
    /\ (pc = "idle" /\ Len(sessions) = 1 /\ staged.starts > 0 /\ hw.busy) ~> (ret = "Ok")
    /\ [](pc \in {"rr_read_out", "rr_clear"} => ENABLED <<ReadResultsExp>>_vars)

\* MaxPolls polls returned WouldBlock, the accelerator completed, and the
\* next read_results returned Ok and acknowledged the completion.
C8_Witness ==
    /\ Len(sessions) = 1
    /\ staged.starts = 1
    /\ polls = MaxPolls
    /\ ret = "Ok"
    /\ acks = [done |-> TRUE, clears |-> 1]
    /\ ~hw.busy

\* C9: the input type of width N is N/8 bytes long, a whole number of bytes,
\* and the large multiplication's output type is twice as long.
C9_OperandLengths ==
    /\ sz.input # 0 => sz.input * 8 = sz.n
    /\ sz.done => (sz.output = 2 * sz.input /\ sz.output * 8 = 2 * sz.n)

\* Both lengths of the widest operand have been computed.
C9_Witness ==
    /\ sz.done
    /\ sz.n = 8 * MaxWidthUnits
    /\ sz.output = 2 * MaxWidthUnits

\* C10: after start_exponentiation(base, r) on a session whose exponent and
\* modulus are staged, the read_results that returns Ok has delivered N/8
\* bytes that are (base ^ exponent) mod modulus.
C10_ResultIsModExp ==
    (/\ pc = "idle"
     /\ ret = "Ok"
     /\ Len(sessions) = 1
     /\ sessions[1].kind = "exp"
     /\ staged.starts = 1)
    => /\ Len(outbuf) = InputType(sessions[1].n)
       /\ LeValue(outbuf) = PowMod(LeValue(staged.operand_a), LeValue(staged.operand_b),
                                   LeValue(staged.modulus))

\* C11: Rsa::new can always be called when no handle exists, it returns the
\* handle with the accelerator's clock enabled, and nothing disables the
\* clock afterwards, neither a driver operation nor the drop of a session or
\* of the handle: the clock is enabled whenever a handle exists.
C11_ClockEnabledWithHandle ==
    /\ [](handle => clock)
    /\ [](~handle => ENABLED <<RsaNew>>_vars)
    /\ [][/\ (~handle /\ handle') => clock'
          /\ clock => clock']_vars

\* A session has started an operation and was dropped, then the handle was
\* dropped: the operation is in flight and the clock is still enabled.
C11_Witness ==
    /\ ~handle
    /\ clock
    /\ hw.busy
    /\ Len(sessions) = 0

\* The lifecycle state of the accelerator: Idle (nothing in flight, no
\* completion pending), Started (computing), Complete (completion latch set,
\* result available).  An operation in flight while a completion is pending
\* is none of the three.
Phase ==
    IF hw.busy THEN (IF latch THEN "Other" ELSE "Started")
    ELSE IF latch THEN "Complete" ELSE "Idle"

\* C12: the accelerator is always Idle, Started or Complete, and it moves
\* only from Idle to Started by a start trigger, from Started to Complete by
\* the hardware's completion, and from Complete to Idle by the clear of a
\* read_results that returns Ok.
C12_Lifecycle ==
    [][/\ Phase' # "Other"
       /\ Phase' # Phase =>
             \/ Phase = "Idle" /\ Phase' = "Started" /\ Did("set_start")
             \/ Phase = "Started" /\ Phase' = "Complete" /\ trace' = trace
             \/ Phase = "Complete" /\ Phase' = "Idle" /\ Did("clear_interrupt")
                    /\ ret' = "Ok"]_vars

\* C13: a read_results returns Ok only for a completion of the operation
\* started last that no read_results has consumed yet, so every started
\* operation is consumed once; and a read_results called right after one
\* that returned Ok, with no start in between, returns WouldBlock.
C13_ConsumedOnce ==
    [][/\ (Did("clear_interrupt") /\ ret' = "Ok") => (acks.done /\ acks.clears = 0)
       /\ (ReadEntered /\ ret = "Ok") => ret' = "WouldBlock"]_vars

\* A read_results of the live exponentiation session has just returned Ok.
ReadOk ==
    /\ pc = "idle"
    /\ ret = "Ok"
    /\ Len(sessions) = 1
    /\ sessions[1].kind = "exp"
    /\ staged.starts > 0

\* C14: with a caller that reads every completed operation and so clears its
\* completion once, a new start is accepted after the read, and what the next
\* successful read_results delivers is a function of the operands staged for
\* the new operation alone, (base ^ exponent) mod modulus; nothing of the
\* results left by earlier operations shows in it.
C14_OutputFromNewOperands ==
    /\ [](ReadOk => ENABLED <<StartExp>>_vars)
    /\ [](ReadOk =>
            outbuf = LeBytes(PowMod(LeValue(staged.operand_a), LeValue(staged.operand_b),
                                    LeValue(staged.modulus)),
                             InputType(sessions[1].n)))

\* The second operation of an 8 bit session, 3 ^ 1 mod 11, has been read as
\* <<3>>, while the high byte of the result region still holds what an earlier
\* 16 bit operation (256 ^ 9 mod 257 = 256) left there.
C14_Witness ==
    /\ ReadOk
    /\ sessions[1].n = 8
    /\ staged.starts = 2
    /\ outbuf = <<3>>
    /\ z_mem = <<3, 1>> \o Zeros(MemLen - 2)

\* The positions inside start_exponentiation.
InStartExp == {"se_write_r", "se_set_start"}

\* C15: from the entry of start_exponentiation to its return the operand-B
\* region, the modulus region and m_prime keep their values; its first
\* statement changes the operand-A region only, its second the R region
\* only, its third the start trigger only; and at the trigger the exponent,
\* the modulus and m_prime staged by the constructor are in place.
C15_StartExpFrame ==
    [][/\ (pc \in InStartExp \/ pc' \in InStartExp) =>
             <<y_mem, m_mem, m_prime>>' = <<y_mem, m_mem, m_prime>>
       /\ (Did("write_operand_a") /\ pc' = "se_write_r") =>
             <<z_mem, hw, latch, outbuf, sessions>>' = <<z_mem, hw, latch, outbuf, sessions>>
       /\ (Did("write_r") /\ pc = "se_write_r") =>
             <<x_mem, hw, latch, outbuf, sessions>>' = <<x_mem, hw, latch, outbuf, sessions>>
       /\ (Did("set_start") /\ pc = "se_set_start") =>
             /\ <<x_mem, z_mem, latch, outbuf, sessions>>'
                    = <<x_mem, z_mem, latch, outbuf, sessions>>
             /\ Prefix(y_mem', Len(staged.operand_b)) = staged.operand_b
             /\ Prefix(m_mem', Len(staged.modulus)) = staged.modulus
             /\ m_prime' = MPrimeFor(LeValue(staged.modulus))]_vars

\* start_exponentiation(3, 9) has returned on an 8 bit session constructed
\* with exponent 5, modulus 11 and its m_prime: all three are still staged,
\* and the operation is in flight.
C15_Witness ==
    /\ pc = "idle"
    /\ trace = <<"write_operand_a", "write_r", "set_start">>
    /\ hw = [busy |-> TRUE, kind |-> "exp", n |-> 8]
    /\ staged.starts = 1
    /\ x_mem[1] = 3
    /\ y_mem[1] = 5
    /\ m_mem[1] = 11
    /\ m_prime = 1171354717

\* The step is a statement of read_results.
ReadStep == ReadEntered \/ Did("read_out") \/ Did("clear_interrupt")

\* C16: no statement of read_results, of any session kind and in either
\* outcome, changes a memory region, m_prime or the operation in flight; the
\* test changes nothing at all, the copy changes the caller's buffer only and
\* the clear the completion signal only, and copy and clear are made only in
\* a call that returns Ok.
C16_ReadResultsFrame ==
    [][/\ ReadStep =>
             /\ mems' = mems
             /\ <<hw, raced, sessions, handle, clock>>' = <<hw, raced, sessions, handle, clock>>
       /\ ReadEntered => (outbuf' = outbuf /\ latch' = latch)
       /\ Did("read_out") => (latch' = latch /\ pc = "rr_read_out" /\ pc' = "rr_clear")
       /\ Did("clear_interrupt") => (outbuf' = outbuf /\ pc = "rr_clear" /\ ret' = "Ok")
       /\ (outbuf' # outbuf /\ trace' # <<"new">>) => Did("read_out")
       /\ (latch /\ ~latch') => Did("clear_interrupt")]_vars

\* A modular multiplication 3 * 5 mod 11 = 4 has been read: the result is in
\* the caller's buffer and still in the result region, and both operands,
\* the modulus and m_prime are as they were staged.
C16_Witness ==
    /\ Len(sessions) = 1
    /\ sessions[1] = [kind |-> "modmul", n |-> 8]
    /\ pc = "idle"
    /\ ret = "Ok"
    /\ outbuf = <<4>>
    /\ z_mem[1] = 4
    /\ x_mem[1] = 3
    /\ y_mem[1] = 5
    /\ m_mem[1] = 11
    /\ m_prime = 1171354717
    /\ ~hw.busy
    /\ ~latch

====
